---- MODULE Spec2Model ----
(***************************************************************************)
(* Model of the web-builder agent: the sandbox boundary (sandbox_path),    *)
(* the file tools and change tracker (write_file, read_file, WRITE_LOG,    *)
(* EmbeddingManager.update_file), the Groq agent loop (_run_groq) and the  *)
(* build orchestrator (autonomous_builder.auto_build), and the session of  *)
(* the desktop front end (website_builder_ui).                             *)
(*                                                                         *)
(* Text is modelled as a sequence of one-character strings, so that the    *)
(* string operations of the code (startswith, split, splitlines, slicing,  *)
(* indexing) are computed on characters.  Short names stand for the real   *)
(* file names: "s" for site-dir, "w" for write_log.txt, "i" for            *)
(* index.html.                                                             *)
(***************************************************************************)
EXTENDS Integers, Sequences, FiniteSets, TLC

\* ------------------------------------------------------------------------
\* Bounds of the model
\* ------------------------------------------------------------------------
MaxRelLen == 5
MaxIter == 3
MaxCalls == 2
MaxOps == 2
MaxUiCalls == 3

\* ------------------------------------------------------------------------
\* Strings
\* ------------------------------------------------------------------------
Sep == "/"

Take(s, n) == SubSeq(s, 1, IF n < Len(s) THEN n ELSE Len(s))

startswith(s, p) == Len(s) >= Len(p) /\ SubSeq(s, 1, Len(p)) = p

endswith(s, p) == Len(s) >= Len(p) /\ SubSeq(s, Len(s) - Len(p) + 1, Len(s)) = p

\* str.split("/"): the components between separators, empty ones included
RECURSIVE split(_)
split(s) ==
  IF \A i \in 1..Len(s) : s[i] # Sep THEN <<s>>
  ELSE LET k == CHOOSE i \in 1..Len(s) : s[i] = Sep /\ \A j \in 1..(i-1) : s[j] # Sep
       IN  <<SubSeq(s, 1, k-1)>> \o split(SubSeq(s, k+1, Len(s)))

\* "/".join(comps)
RECURSIVE joinSep(_)
joinSep(comps) ==
  IF comps = <<>> THEN <<>>
  ELSE IF Len(comps) = 1 THEN comps[1]
  ELSE comps[1] \o <<Sep>> \o joinSep(Tail(comps))

AllStrings(chars, n) == UNION {[1..k -> chars] : k \in 0..n}

\* ------------------------------------------------------------------------
\* posixpath as used by sandbox_path
\* ------------------------------------------------------------------------
Dot == <<".">>
DotDot == <<".", ".">>

isabs(p) == startswith(p, <<Sep>>)

\* os.path.join(a, b)
join(a, b) ==
  IF isabs(b) THEN b
  ELSE IF a = <<>> \/ endswith(a, <<Sep>>) THEN a \o b
  ELSE a \o <<Sep>> \o b

\* the component loop of os.path.normpath
RECURSIVE normComps(_, _, _)
normComps(comps, acc, slashes) ==
  IF comps = <<>> THEN acc
  ELSE LET c == Head(comps)
           acc2 == IF c = <<>> \/ c = Dot THEN acc
                   ELSE IF c # DotDot
                           \/ (slashes = 0 /\ acc = <<>>)
                           \/ (acc # <<>> /\ acc[Len(acc)] = DotDot)
                        THEN Append(acc, c)
                   ELSE IF acc # <<>> THEN SubSeq(acc, 1, Len(acc) - 1)
                   ELSE acc
       IN  normComps(Tail(comps), acc2, slashes)

\* initial_slashes of normpath: two leading slashes are kept, one or three
\* and more become one
initialSlashes(path) ==
  IF ~isabs(path) THEN 0
  ELSE IF startswith(path, <<Sep, Sep>>) /\ ~startswith(path, <<Sep, Sep, Sep>>) THEN 2
  ELSE 1

\* path or "."
orDot(path) == IF path = <<>> THEN Dot ELSE path

normWith(path, slashes) ==
  orDot([i \in 1..slashes |-> Sep] \o joinSep(normComps(split(path), <<>>, slashes)))

\* os.path.normpath
normpath(path) == IF path = <<>> THEN Dot ELSE normWith(path, initialSlashes(path))

\* the process's working directory (only read for relative arguments)
Cwd == <<Sep, "a">>

\* the characters relative paths are drawn from
PathChars == {Sep, ".", "a", "s", "2"}

\* os.path.abspath
abspath(path) == normpath(IF isabs(path) THEN path ELSE join(Cwd, path))

\* p.rfind("/") + 1
lastSep(p) ==
  IF \A i \in 1..Len(p) : p[i] # Sep THEN 0
  ELSE CHOOSE i \in 1..Len(p) : p[i] = Sep /\ \A j \in (i+1)..Len(p) : p[j] # Sep

\* head.rstrip("/") unless head is all slashes
rstripSep(head) ==
  IF \A i \in 1..Len(head) : head[i] = Sep THEN head
  ELSE SubSeq(head, 1, CHOOSE i \in 1..Len(head) :
                         head[i] # Sep /\ \A j \in (i+1)..Len(head) : head[j] = Sep)

\* os.path.dirname
dirname(p) == rstripSep(SubSeq(p, 1, lastSep(p)))

\* SANDBOX = abspath(join(dirname(__file__), "site-dir"))
SANDBOX == abspath(join(Cwd, <<"s">>))

\* WRITE_LOG = join(SANDBOX, "write_log.txt")
WRITE_LOG == join(SANDBOX, <<"w">>)

EscapeError == "Path escapes sandbox"

\* the prefix test without the separator
confine_NoSep(full) ==
  IF ~startswith(full, SANDBOX)
  THEN [err |-> EscapeError, full |-> <<>>]
  ELSE [err |-> "", full |-> full]

\* if not full.startswith(SANDBOX + os.sep): raise ValueError(...)
confine(full) ==
  IF ~startswith(full, SANDBOX \o <<Sep>>)
  THEN [err |-> EscapeError, full |-> <<>>]
  ELSE [err |-> "", full |-> full]

\* sandbox_path: the absolute path, or the ValueError it raises
sandbox_path(rel) == confine(abspath(join(SANDBOX, rel)))

\* ------------------------------------------------------------------------
\* Text files: newline handling and diffs
\* ------------------------------------------------------------------------
LF == "\n"
CR == "\r"

\* reading a file opened in text mode: "\r\n" and "\r" become "\n".
\* Each "\r" is turned into "\n" and the "\n" that follows a "\r" is dropped.

translated(c) ==
  [i \in 1..Len(c) |->
     IF c[i] = CR THEN LF
     ELSE IF c[i] = LF /\ i > 1 /\ c[i-1] = CR THEN "dropped"
     ELSE c[i]]


readText(c) == SelectSeq(translated(c), LAMBDA x : x # "dropped")

\* str.splitlines(): lines end at "\n", "\r" or "\r\n"; no line after the
\* last terminator
RECURSIVE splitlines(_)
splitlines(c) ==
  IF c = <<>> THEN <<>>
  ELSE LET brk == {i \in 1..Len(c) : c[i] = LF \/ c[i] = CR}
       IN  IF brk = {} THEN <<c>>
           ELSE LET k == CHOOSE i \in brk : \A j \in brk : i <= j
                    n == IF c[k] = CR /\ k < Len(c) /\ c[k+1] = LF THEN k + 2 ELSE k + 1
                IN  <<SubSeq(c, 1, k-1)>> \o splitlines(SubSeq(c, n, Len(c)))

\* "\n".join(lines)
RECURSIVE joinLines(_)
joinLines(lines) ==
  IF lines = <<>> THEN <<>>
  ELSE IF Len(lines) = 1 THEN lines[1]
  ELSE lines[1] \o <<LF>> \o joinLines(Tail(lines))

\* length of the longest common prefix of two line lists
RECURSIVE commonPrefix(_, _)
commonPrefix(a, b) ==
  IF a = <<>> \/ b = <<>> \/ Head(a) # Head(b) THEN 0
  ELSE 1 + commonPrefix(Tail(a), Tail(b))

Reverse(s) == [i \in 1..Len(s) |-> s[Len(s) + 1 - i]]

\* difflib.unified_diff(a, b, lineterm=""): nothing when the line lists are
\* equal; otherwise the two file headers, one hunk header and the hunk, with
\* the lines shared at both ends as context and the rest as -/+ lines
mark(m, ls) == [i \in 1..Len(ls) |-> <<m>> \o ls[i]]

hunk(a, b, pre, suf) ==
  << <<"-", "-", "-", " ">>, <<"+", "+", "+", " ">>, <<"@@">> >>
  \o mark(" ", SubSeq(a, 1, pre))
  \o mark("-", SubSeq(a, pre + 1, Len(a) - suf))
  \o mark("+", SubSeq(b, pre + 1, Len(b) - suf))
  \o mark(" ", SubSeq(a, Len(a) - suf + 1, Len(a)))

hunkAfter(a, b, pre) ==
  hunk(a, b, pre, commonPrefix(Reverse(SubSeq(a, pre + 1, Len(a))),
                               Reverse(SubSeq(b, pre + 1, Len(b)))))

unified_diff(a, b) == IF a = b THEN <<>> ELSE hunkAfter(a, b, commonPrefix(a, b))

\* ------------------------------------------------------------------------
\* The sandbox directory: a map from the absolute path of each file to its
\* content.  Directories are the ancestors of files.
\* ------------------------------------------------------------------------
EmptyFs == [p \in {} |-> <<>>]

isfile(fs, p) == p \in DOMAIN fs

isdir(fs, d) == d = SANDBOX \/ \E f \in DOMAIN fs : startswith(f, d \o <<Sep>>)

exists(fs, p) == isfile(fs, p) \/ isdir(fs, p)

writeAt(fs, p, c) == [q \in DOMAIN fs \cup {p} |-> IF q = p THEN c ELSE fs[q]]

\* the directories os.makedirs has to find or create below the sandbox
dirChain(d) ==
  {SubSeq(d, 1, k) : k \in {j \in (Len(SANDBOX) + 1)..Len(d) : j = Len(d) \/ d[j+1] = Sep}}

\* ------------------------------------------------------------------------
\* embedding_manager.EmbeddingManager
\* ------------------------------------------------------------------------
\* index_path = join(root_dir, "embeddings.json")
index_path == join(SANDBOX, <<"e">>)

\* hashlib.sha256(text).hexdigest(), taken as collision free
sha256(text) == <<"#">> \o text

\* model.encode([text])[0].tolist(): the derived artifact of a text
encode(text) == <<"~">> \o text

\* dict.get(rel_path) on the index, a list of entries in insertion order
indexHas(index, rel) == \E i \in 1..Len(index) : index[i].path = rel

indexGet(index, rel) == index[CHOOSE i \in 1..Len(index) : index[i].path = rel]

\* index[rel_path] = {...}: a present key keeps its place
indexPut(index, e) ==
  IF indexHas(index, e.path)
  THEN [i \in 1..Len(index) |-> IF index[i].path = e.path THEN e ELSE index[i]]
  ELSE Append(index, e)

\* json.dump(index)
RECURSIVE dumpEntries(_)
dumpEntries(index) ==
  IF index = <<>> THEN <<>>
  ELSE Head(index).path \o <<":">> \o Head(index).hash \o <<",">>
       \o Head(index).vector \o <<";">> \o dumpEntries(Tail(index))

json_dump(index) == <<"{">> \o dumpEntries(index) \o <<"}">>

\* EmbeddingManager._save_index: an OSError is swallowed
SaveIndex(fs, index, faults) ==
  IF "save" \in faults \/ isdir(fs, index_path) THEN fs
  ELSE writeAt(fs, index_path, json_dump(index))

Unchanged(fs, index) == [fs |-> fs, index |-> index, raised |-> "", encoded |-> FALSE]

\* lines 61-63: encode, replace the entry, save the index
recompute(fs, index, rel, text, digest, faults) ==
  IF "encode" \in faults
  THEN [fs |-> fs, index |-> index, raised |-> "RuntimeError", encoded |-> FALSE]
  ELSE [fs |-> SaveIndex(fs, indexPut(index, [path |-> rel, hash |-> digest,
                                              vector |-> encode(text)]), faults),
        index |-> indexPut(index, [path |-> rel, hash |-> digest, vector |-> encode(text)]),
        raised |-> "", encoded |-> TRUE]

\* the hash comparison left out: always recompute
refresh_Always(fs, index, rel, text, digest, faults) ==
  recompute(fs, index, rel, text, digest, faults)

\* lines 58-60: nothing to do when the stored hash is the digest
refresh(fs, index, rel, text, digest, faults) ==
  IF indexHas(index, rel) /\ indexGet(index, rel).hash = digest
  THEN Unchanged(fs, index)
  ELSE recompute(fs, index, rel, text, digest, faults)

hashAndRefresh(fs, index, rel, text, faults) ==
  refresh(fs, index, rel, text, sha256(text), faults)

updateAt(fs, index, rel, full, faults) ==
  IF ~startswith(full, SANDBOX) THEN Unchanged(fs, index)
  ELSE IF ~isfile(fs, full) THEN Unchanged(fs, index)
  ELSE hashAndRefresh(fs, index, rel, readText(fs[full]), faults)

\* EmbeddingManager.update_file(rel_path)
update_file(fs, index, model, rel, faults) ==
  IF ~model THEN Unchanged(fs, index)
  ELSE updateAt(fs, index, rel, abspath(join(SANDBOX, rel)), faults)

\* ------------------------------------------------------------------------
\* website_mcp: the file tools
\* ------------------------------------------------------------------------
DiffCap == 1000

\* time.strftime(...): one token stands for the timestamp
Timestamp == "T"

\* f"{timestamp} {path.path}\n{diff}\n\n"
logEntry(path, diff) == <<Timestamp, " ">> \o path \o <<LF>> \o diff \o <<LF, LF>>

\* open(WRITE_LOG, "a") and write; an OSError is swallowed
appendLog(fs, path, diff, faults) ==
  IF "log" \in faults \/ isdir(fs, WRITE_LOG) THEN fs
  ELSE writeAt(fs, WRITE_LOG,
               (IF isfile(fs, WRITE_LOG) THEN fs[WRITE_LOG] ELSE <<>>)
               \o logEntry(path, diff))

Outcome(fs, index, raised, result) ==
  [fs |-> fs, index |-> index, raised |-> raised, result |-> result]

\* "created" if not old else "updated", and the returned text
writeResult(path, old, diff) ==
  <<IF old = <<>> THEN "created" ELSE "updated", " ">> \o path \o <<LF>> \o Take(diff, DiffCap)

\* lines 87-97: the diff, the log entry, the result
writeLogged(path, faults, old, upd, diff) ==
  Outcome(appendLog(upd.fs, path, diff, faults), upd.index, "", writeResult(path, old, diff))

\* after update_file: its exception leaves write_file
writeTracked(path, content, faults, old, upd) ==
  IF upd.raised # "" THEN Outcome(upd.fs, upd.index, upd.raised, <<>>)
  ELSE writeLogged(path, faults, old, upd,
                   joinLines(unified_diff(splitlines(old), splitlines(content))))

\* lines 84-86: the file is written, then the embedding is updated
writeNew(fs, index, model, path, content, faults, full, old) ==
  writeTracked(path, content, faults, old,
               update_file(writeAt(fs, full, content), index, model, path, faults))

\* lines 76-83: the parent directories, then the old content
writeInside(fs, index, model, path, content, faults, full) ==
  IF \E d \in dirChain(dirname(full)) : isfile(fs, d)
  THEN Outcome(fs, index, "FileExistsError", <<>>)
  ELSE IF isdir(fs, full) THEN Outcome(fs, index, "IsADirectoryError", <<>>)
  ELSE writeNew(fs, index, model, path, content, faults, full,
                IF isfile(fs, full) THEN readText(fs[full]) ELSE <<>>)

writeResolved(fs, index, model, path, content, faults, sp) ==
  IF sp.err # "" THEN Outcome(fs, index, "ValueError", <<>>)
  ELSE writeInside(fs, index, model, path, content, faults, sp.full)

\* write_file(path, content)
write_file(fs, index, model, path, content, faults) ==
  writeResolved(fs, index, model, path, content, faults, sandbox_path(path))

readResolved(fs, index, sp) ==
  IF sp.err # "" THEN Outcome(fs, index, "ValueError", <<>>)
  ELSE IF isdir(fs, sp.full) THEN Outcome(fs, index, "IsADirectoryError", <<>>)
  ELSE IF ~isfile(fs, sp.full) THEN Outcome(fs, index, "FileNotFoundError", <<>>)
  ELSE Outcome(fs, index, "", readText(fs[sp.full]))

\* read_file(path)
read_file(fs, index, path) == readResolved(fs, index, sandbox_path(path))

\* os.path.relpath(f, SANDBOX) for a file below the sandbox
relpath(f) == SubSeq(f, Len(SANDBOX) + 2, Len(f))

\* the files in the order in which os.walk comes to them (one fixed order),
\* as the list is written into a message: the paths with "," between them
RECURSIVE walked(_)
walked(files) ==
  IF files = {} THEN <<>>
  ELSE IF Cardinality(files) = 1 THEN relpath(CHOOSE f \in files : TRUE)
  ELSE relpath(CHOOSE f \in files : TRUE) \o <<",">>
       \o walked(files \ {CHOOSE f \in files : TRUE})

\* list_files(): the relative paths of all files, as a list
list_files(fs, index) == Outcome(fs, index, "", <<"[">> \o walked(DOMAIN fs) \o <<"]">>)

\* ------------------------------------------------------------------------
\* website_mcp: the other tools
\* ------------------------------------------------------------------------
OutCap == 4096
SnippetCap == 2000

TimeoutMark == <<LF, "<timeout>">>

\* run_cmd(arg): proc is what the subprocess did, [out, hang]; on a timeout
\* the captured output is bytes, and bytes + str raises TypeError
run_cmd(fs, index, proc) ==
  IF ~proc.hang THEN Outcome(fs, index, "", Take(proc.out, OutCap))
  ELSE IF proc.out # <<>> THEN Outcome(fs, index, "TypeError", <<>>)
  ELSE Outcome(fs, index, "", Take(TimeoutMark, OutCap))

\* join(SANDBOX, "docs")
docs_dir == join(SANDBOX, <<"d">>)

\* f.lower().endswith((".txt", ".md")): "t" and "m" stand for the suffixes
isDoc(f) == f[Len(f)] \in {"t", "m"}

\* query in text
contains(text, q) ==
  \E i \in 0..(Len(text) - Len(q)) : SubSeq(text, i + 1, i + Len(q)) = q

basename(f) == SubSeq(f, lastSep(f) + 1, Len(f))

\* "\n\n".join(results) over the matching files
\* f"{f}:\n{snippet}"
snippetOf(fs, f) == basename(f) \o <<":", LF>> \o Take(readText(fs[f]), SnippetCap)

RECURSIVE joinResults(_, _)
joinFrom(fs, files, f) ==
  IF files = {f} THEN snippetOf(fs, f)
  ELSE snippetOf(fs, f) \o <<LF, LF>> \o joinResults(fs, files \ {f})

joinResults(fs, files) ==
  IF files = {} THEN <<>> ELSE joinFrom(fs, files, CHOOSE g \in files : TRUE)

\* search_docs(arg)
search_docs(fs, index, query) ==
  IF ~exists(fs, docs_dir) THEN Outcome(fs, index, "", <<>>)
  ELSE Outcome(fs, index, "",
               Take(joinResults(fs, {f \in DOMAIN fs : /\ startswith(f, docs_dir \o <<Sep>>)
                                                       /\ isDoc(f)
                                                       /\ contains(readText(fs[f]), query)}),
                    OutCap))

\* get_os(): platform.platform()
get_os(fs, index) == Outcome(fs, index, "", <<"Linux">>)

\* join(SANDBOX, "package.json")
pkg == join(SANDBOX, <<"p">>)

\* init_react_project(): node is what check_node_version finds, npm whether
\* the scaffolding commands succeed
init_react_project(fs, index, node, npm) ==
  IF ~node THEN Outcome(fs, index, "", <<"Node.js 20+ required. ">>)
  ELSE IF exists(fs, pkg) THEN Outcome(fs, index, "", <<"React project already initialized">>)
  ELSE IF npm THEN Outcome(writeAt(fs, pkg, <<"{", "}">>), index, "", <<"React environment ready">>)
  ELSE Outcome(fs, index, "", <<"Failed to set up React: ">>)

\* ------------------------------------------------------------------------
\* _run_groq: decoding and dispatching one tool call
\* ------------------------------------------------------------------------
NoFields == [k \in {} |-> <<>>]

\* a call's arguments string, by what json.loads makes of it
ObjectArgs(obj) == [json |-> "object", obj |-> obj]
InvalidArgs == [json |-> "invalid", obj |-> NoFields]
ArrayArgs == [json |-> "array", obj |-> NoFields]
EmptyArgs == [json |-> "empty", obj |-> NoFields]

\* json.loads(call.function.arguments or "{}"), with JSONDecodeError -> {}
json_loads(arguments) ==
  IF arguments.json = "object" THEN [isdict |-> TRUE, obj |-> arguments.obj]
  ELSE IF arguments.json = "array" THEN [isdict |-> FALSE, obj |-> NoFields]
  ELSE [isdict |-> TRUE, obj |-> NoFields]

\* args.get(key, "")
get(args, key) == IF key \in DOMAIN args.obj THEN args.obj[key] ELSE <<>>

ToolNames ==
  {"write_file", "read_file", "list_files", "run_cmd", "search_docs", "get_os",
   "init_react_project"}

\* an unknown name answered with nothing
unknownTool_Silent(name) == <<>>

\* f"Unknown tool: {call.function.name}"
unknownTool(name) == <<"Unknown tool: ", name>>

\* the if/elif chain of _run_groq; env is what the environment does during
\* the call: [faults, proc, node, npm]
dispatchArgs(fs, index, model, name, args, env) ==
  IF name \in {"write_file", "read_file", "run_cmd", "search_docs"} /\ ~args.isdict
  THEN Outcome(fs, index, "AttributeError", <<>>)
  ELSE IF name = "write_file"
       THEN write_file(fs, index, model, get(args, "path"), get(args, "content"), env.faults)
  ELSE IF name = "read_file" THEN read_file(fs, index, get(args, "path"))
  ELSE IF name = "list_files" THEN list_files(fs, index)
  ELSE IF name = "run_cmd" THEN run_cmd(fs, index, env.proc)
  ELSE IF name = "search_docs" THEN search_docs(fs, index, get(args, "query"))
  ELSE IF name = "get_os" THEN get_os(fs, index)
  ELSE IF name = "init_react_project" THEN init_react_project(fs, index, env.node, env.npm)
  ELSE Outcome(fs, index, "", unknownTool(name))

Dispatch(fs, index, model, call, env) ==
  dispatchArgs(fs, index, model, call.name, json_loads(call.arguments), env)

\* ------------------------------------------------------------------------
\* State
\* ------------------------------------------------------------------------
VARIABLES
  fs,            \* the files of the sandbox directory
  index,         \* EMBED_MANAGER.index
  embed,         \* EMBED_MANAGER.model is loaded
  last,          \* the tool call made last and its outcome
  nops,          \* tool calls made so far
  pc,            \* where auto_build / _run_groq stand
  iterations,    \* auto_build's argument
  site_type,     \* auto_build's argument
  model,         \* auto_build's argument
  specRead,      \* docs/spec.md has been read
  messages,      \* auto_build's message list
  step,          \* auto_build's loop variable
  turns,         \* compound_tool calls made by auto_build
  results,       \* what each compound_tool call returned
  conversation,  \* _run_groq's copy of the message list
  pending,       \* the tool calls of the current response not yet dispatched
  rounds,        \* tool-call responses of the current turn
  sent,          \* the conversation given to the engine at its last call
  error,         \* the exception auto_build ended with
  rel,           \* the path under test
  program,       \* the script that was started
  ui_conversation, \* website_builder_ui.conversation
  ui_pc,         \* where run_prompt / auto_build of the UI stand
  ui_iterations, \* the UI auto_build's argument, while it runs
  ui_site_type,  \* the UI auto_build's argument, while it runs
  ui_step,       \* the UI auto_build's loop variable, while it runs
  ui_calls,      \* compound_tool calls issued by the UI session
  ui_error,      \* the exception the last UI handler ended with
  ui_last        \* the UI handler run last and the state it started from

vars ==
  <<fs, index, embed, last, nops, pc, iterations, site_type, model, specRead,
    messages, step, turns, results, conversation, pending, rounds, sent, error, rel,
    program, ui_conversation, ui_pc, ui_iterations, ui_site_type, ui_step, ui_calls,
    ui_error, ui_last>>

uiVars ==
  <<program, ui_conversation, ui_pc, ui_iterations, ui_site_type, ui_step, ui_calls,
    ui_error, ui_last>>

toolVars == <<fs, index, embed, last, nops>>
buildVars ==
  <<pc, iterations, site_type, model, specRead, messages, step, turns, results,
    conversation, pending, rounds, sent, error>>

None == <<"None">>

NoCall == [id |-> 0, name |-> "", arguments |-> EmptyArgs]
NoLast == [call |-> NoCall, raised |-> "", result |-> <<>>, before |-> EmptyFs,
           indexBefore |-> <<>>, prev |-> NoCall, prevRaised |-> ""]

NoEnv == [faults |-> {}, proc |-> [out |-> <<>>, hang |-> FALSE], node |-> FALSE,
          npm |-> FALSE]

InitTools ==
  /\ fs = EmptyFs
  /\ index = <<>>
  /\ embed \in BOOLEAN
  /\ last = NoLast
  /\ nops = 0

NoUiLast == [op |-> "", n |-> 0, before |-> <<>>, calls |-> 0, fs |-> EmptyFs]

InitUi ==
  /\ ui_conversation = <<>>
  /\ ui_pc = "idle"
  /\ ui_iterations = 0
  /\ ui_site_type = "html"
  /\ ui_step = 0
  /\ ui_calls = 0
  /\ ui_error = ""
  /\ ui_last = NoUiLast

InitBuild ==
  /\ pc = "idle"
  /\ iterations = 0
  /\ site_type = "html"
  /\ model = "llama"
  /\ specRead = FALSE
  /\ messages = <<>>
  /\ step = 0
  /\ turns = 0
  /\ results = <<>>
  /\ conversation = <<>>
  /\ pending = <<>>
  /\ rounds = 0
  /\ sent = <<>>
  /\ error = ""

\* ------------------------------------------------------------------------
\* The sandbox boundary on its own: one path, resolved, written and read
\* ------------------------------------------------------------------------
RelPaths == AllStrings(PathChars, MaxRelLen)

Call(id, name, obj) == [id |-> id, name |-> name, arguments |-> ObjectArgs(obj)]

PathFields(path) == [k \in {"path"} |-> path]
WriteFields(path, content) == [k \in {"path", "content"} |-> IF k = "path" THEN path ELSE content]

\* one call dispatched outside a conversation
Effect(call, out) ==
  /\ fs' = out.fs
  /\ index' = out.index
  /\ last' = [call |-> call, raised |-> out.raised, result |-> out.result,
              before |-> fs, indexBefore |-> index,
              prev |-> last.call, prevRaised |-> last.raised]
  /\ nops' = nops + 1
  /\ UNCHANGED embed

Invoke(call, env) == Effect(call, Dispatch(fs, index, embed, call, env))

InitPath ==
  InitTools /\ InitBuild /\ InitUi /\ program = "website_mcp" /\ rel \in RelPaths

PathWrite ==
  /\ nops = 0
  /\ Invoke(Call(1, "write_file", WriteFields(rel, <<"a">>)), NoEnv)
  /\ UNCHANGED <<buildVars, rel, uiVars>>

PathRead ==
  /\ nops <= 1
  /\ Invoke(Call(2, "read_file", PathFields(rel)), NoEnv)
  /\ UNCHANGED <<buildVars, rel, uiVars>>

NextPath == PathWrite \/ PathRead

SpecPath == InitPath /\ [][NextPath]_vars

\* ------------------------------------------------------------------------
\* autonomous_builder.auto_build and website_mcp.compound_tool / _run_groq
\* ------------------------------------------------------------------------
SYSTEM_PROMPT == <<"SYSTEM_PROMPT">>
SYSTEM_PROMPT_REACT == <<"SYSTEM_PROMPT_REACT">>
SpecText == <<"spec">>
RefineText == <<"Please refine the website.">>

Msg(role, content) == [role |-> role, content |-> content]

\* the engine's answers: final texts and tool calls
FinalTexts == {None, <<>>, <<"o", "k">>}

LoopCalls ==
  { [name |-> "write_file", arguments |-> ObjectArgs(WriteFields(<<"i">>, <<"a">>))],
    [name |-> "read_file", arguments |-> ObjectArgs(PathFields(<<"i">>))],
    [name |-> "read_file", arguments |-> ObjectArgs(PathFields(<<".", ".", Sep, "i">>))],
    [name |-> "list_files", arguments |-> EmptyArgs],
    [name |-> "paint", arguments |-> InvalidArgs] }

\* the tool-call lists of at most n calls
Batches(n) == UNION {[1..k -> LoopCalls] : k \in 1..n}

\* the ids the engine gives the calls of a response: the calls of a build are
\* numbered as they come
WithIds(batch, done) ==
  [i \in 1..Len(batch) |->
     [id |-> done + i, name |-> batch[i].name, arguments |-> batch[i].arguments]]

Models == {"llama", "gemini"}

\* model.lower().startswith("gemini")
isGemini(m) == m = "gemini"

\* auto_build that reads the specification before it checks its argument
BuildChecks_Late(n, specExists) ==
  IF ~specExists THEN [error |-> "FileNotFoundError", read |-> FALSE]
  ELSE IF n < 1 THEN [error |-> "ValueError", read |-> TRUE]
  ELSE [error |-> "", read |-> TRUE]

\* auto_build, lines 48-53: the argument check, then the specification file
BuildChecks(n, specExists) ==
  IF n < 1 THEN [error |-> "ValueError", read |-> FALSE]
  ELSE IF ~specExists THEN [error |-> "FileNotFoundError", read |-> FALSE]
  ELSE [error |-> "", read |-> TRUE]

\* ensure_react_env(): scaffolds the project unless package.json exists;
\* failures are printed and ignored
ensure_react_env(f, npm) ==
  IF exists(f, pkg) \/ ~npm THEN f ELSE writeAt(f, pkg, <<"{", "}">>)

\* auto_build up to its loop
Build(n, t, m, specExists, npm) ==
  /\ program = "autonomous_builder"
  /\ pc = "idle"
  /\ LET chk == BuildChecks(n, specExists)
     IN  /\ specRead' = chk.read
         /\ error' = chk.error
         /\ iterations' = n
         /\ site_type' = t
         /\ model' = m
         /\ IF chk.error # ""
            THEN /\ pc' = "failed"
                 /\ UNCHANGED <<messages, fs>>
            ELSE /\ pc' = "loop"
                 /\ fs' = IF t = "react" THEN ensure_react_env(fs, npm) ELSE fs
                 /\ messages' =
                      << Msg("system", IF t = "react" THEN SYSTEM_PROMPT_REACT ELSE SYSTEM_PROMPT),
                         Msg("user", SpecText) >>
  /\ UNCHANGED <<index, embed, last, nops, step, turns, results, conversation, pending,
                 rounds, sent, rel, uiVars>>

\* the refine instruction before every turn, the first included
withRefine_Always(msgs, k) == Append(msgs, Msg("user", RefineText))

\* if step > 0: messages.append(refine)
withRefine(msgs, k) == IF k > 0 THEN Append(msgs, Msg("user", RefineText)) ELSE msgs

\* one pass of the for loop up to the call of compound_tool
StartTurn ==
  /\ pc = "loop"
  /\ step < iterations
  /\ messages' = withRefine(messages, step)
  /\ turns' = turns + 1
  /\ IF isGemini(model)
     THEN /\ pc' = "gemini"
          /\ UNCHANGED conversation
     ELSE /\ pc' = "awaiting"
          /\ conversation' = withRefine(messages, step)
  /\ rounds' = 0
  /\ pending' = <<>>
  /\ UNCHANGED <<toolVars, iterations, site_type, model, specRead, step, results, sent,
                 error, rel, uiVars>>

\* {"role": "assistant", "content": result[0]}
TurnMessage(result) == Msg("assistant", <<result[1]>>)

\* auto_build that goes on after an empty result
AfterTurn_NoBreak(result) ==
  /\ results' = Append(results, result)
  /\ messages' = IF result # <<>> THEN Append(messages, TurnMessage(result)) ELSE messages
  /\ step' = step + 1
  /\ pc' = "loop"

\* auto_build after compound_tool returned: append or break
AfterTurn(result) ==
  /\ results' = Append(results, result)
  /\ IF result # <<>>
     THEN /\ messages' = Append(messages, TurnMessage(result))
          /\ step' = step + 1
          /\ pc' = "loop"
     ELSE /\ pc' = "finish"
          /\ UNCHANGED <<messages, step>>

\* _run_groq appending to the list it was given
copy_Aliased(msgs, conv) == conv

\* conversation = messages[:]: what _run_groq appends to its conversation
\* leaves the caller's list msgs as it is
copy(msgs, conv) == msgs

\* message.content or ""
orEmpty(content) == IF content = None THEN <<>> ELSE content

\* _run_groq: the engine answers without tool calls
EngineFinal(content) ==
  /\ pc = "awaiting"
  /\ sent' = conversation
  /\ AfterTurn(orEmpty(content))
  /\ UNCHANGED <<toolVars, iterations, site_type, model, specRead, turns, conversation,
                 pending, rounds, error, rel, uiVars>>

\* _run_groq: the engine answers with tool calls
EngineToolCalls(batch) ==
  /\ pc = "awaiting"
  /\ sent' = conversation
  /\ conversation' = Append(conversation, [role |-> "assistant", content |-> None,
                                           tool_calls |-> WithIds(batch, nops)])
  /\ pending' = WithIds(batch, nops)
  /\ messages' = copy(messages, conversation')
  /\ rounds' = rounds + 1
  /\ pc' = "executing"
  /\ UNCHANGED <<toolVars, iterations, site_type, model, specRead, step, turns,
                 results, error, rel, uiVars>>

\* the engine call fails: the exception leaves _run_groq and auto_build
EngineError ==
  /\ pc \in {"awaiting", "gemini"}
  /\ IF pc = "awaiting" THEN sent' = conversation ELSE UNCHANGED sent
  /\ pc' = "failed"
  /\ error' = "TransportError"
  /\ UNCHANGED <<toolVars, iterations, site_type, model, specRead, messages, step, turns,
                 results, conversation, pending, rounds, rel, uiVars>>

\* _run_groq: one pass of the for loop over message.tool_calls
\* the for loop left after its first call
rest_None(calls) == <<>>

\* the calls the for loop still has to make
rest(calls) == Tail(calls)

\* a turn that returns once the calls of a response are made
afterCall_Return(calls) == IF calls = <<>> THEN "finish" ELSE "executing"

\* after the last call of the for loop, the while loop calls the engine again
afterCall(calls) == IF calls = <<>> THEN "awaiting" ELSE "executing"

Dispatched(call, out) ==
  /\ Effect(call, out)
  /\ IF out.raised # ""
     THEN /\ pc' = "failed"
          /\ error' = out.raised
          /\ UNCHANGED <<conversation, pending>>
     ELSE /\ conversation' = Append(conversation,
                               [role |-> "tool", tool_call_id |-> call.id,
                                content |-> out.result])
          /\ pending' = rest(pending)
          /\ pc' = afterCall(rest(pending))
          /\ UNCHANGED error
  /\ messages' = copy(messages, conversation')

DispatchCall(env) ==
  /\ pc = "executing"
  /\ pending # <<>>
  /\ Dispatched(Head(pending), Dispatch(fs, index, embed, Head(pending), env))
  /\ UNCHANGED <<iterations, site_type, model, specRead, step, turns,
                 results, rounds, sent, rel, uiVars>>

\* _run_gemini: history and last message, one call, the text parts joined
GeminiHistory(msgs) ==
  LET keep == SelectSeq(SubSeq(msgs, 1, Len(msgs) - 1), LAMBDA m : m.content # <<>>)
  IN  [i \in 1..Len(keep) |-> [role |-> keep[i].role, parts |-> <<keep[i].content>>]]

GeminiTurn(text) ==
  /\ pc = "gemini"
  /\ sent' = Append(GeminiHistory(messages),
                    [role |-> "user", parts |-> <<messages[Len(messages)].content>>])
  /\ AfterTurn(text)
  /\ UNCHANGED <<toolVars, iterations, site_type, model, specRead, turns, conversation,
                 pending, rounds, error, rel, uiVars>>

\* auto_build after its loop
Finish ==
  /\ \/ pc = "loop" /\ step >= iterations
     \/ pc = "finish"
  /\ pc' = "done"
  /\ UNCHANGED <<toolVars, iterations, site_type, model, specRead, messages, step, turns,
                 results, conversation, pending, rounds, sent, error, rel, uiVars>>

\* ------------------------------------------------------------------------
\* website_builder_ui: the session's conversation, builds, chat sends, reset
\* ------------------------------------------------------------------------
UI_SYSTEM_PROMPT == <<"UI_SYSTEM_PROMPT">>
UI_SYSTEM_PROMPT_REACT == <<"UI_SYSTEM_PROMPT_REACT">>
Prompt == <<"prompt">>
ChatText == <<"msg">>
ImproveChat == <<"Please improve the site.">>
ImproveBuild == <<"Please improve the site by updating existing files.">>

\* the text blocks of a compound_tool result, joined
UiTexts == {<<>>, <<"o", "k">>}

\* ensure_react_env() of the UI: nothing without Node.js or with a
\* package.json; a failed scaffold is a warning
ui_ensure_react_env(f, node) ==
  IF ~node \/ exists(f, pkg) THEN f ELSE writeAt(f, pkg, <<"{", "}">>)

prepared(f, t, node) == IF t = "react" THEN ui_ensure_react_env(f, node) ELSE f

\* the system message appended whether or not the conversation is empty
seeded_Always(conv, t, text) ==
  Append(Append(conv, Msg("system", IF t = "react" THEN UI_SYSTEM_PROMPT_REACT
                                                    ELSE UI_SYSTEM_PROMPT)),
         Msg("user", text))

\* if not conversation: append the system message; then the user's text
seeded(conv, t, text) ==
  Append(IF conv = <<>>
         THEN << Msg("system", IF t = "react" THEN UI_SYSTEM_PROMPT_REACT
                                               ELSE UI_SYSTEM_PROMPT) >>
         ELSE conv,
         Msg("user", text))

\* call_compound_tool: if len(conversation) > 2: append the improve text
withImproveChat(conv) ==
  IF Len(conv) > 2 THEN Append(conv, Msg("user", ImproveChat)) ELSE conv

\* auto_build: if step > 0: append the improve text
withImprove(conv, k) ==
  IF k > 0 THEN Append(conv, Msg("user", ImproveBuild)) ELSE conv

UiStarted(op, n, f) ==
  [op |-> op, n |-> n, before |-> ui_conversation, calls |-> ui_calls, fs |-> f]

\* auto_build has returned or raised: its arguments and loop variable are gone
Returned ==
  /\ ui_iterations' = 0
  /\ ui_site_type' = "html"
  /\ ui_step' = 0

\* run_prompt up to anyio.run(auto_build, ...), with a description entered
\* and no images or guideline documents selected
UiRunPrompt(n, t, node) ==
  /\ program = "website_builder_ui"
  /\ ui_pc = "idle"
  /\ n <= MaxUiCalls - ui_calls
  /\ fs' = prepared(fs, t, node)
  /\ ui_pc' = "called"
  /\ ui_iterations' = n
  /\ ui_site_type' = t
  /\ ui_step' = 0
  /\ ui_error' = ""
  /\ ui_last' = UiStarted("auto_build", n, prepared(fs, t, node))
  /\ UNCHANGED <<index, embed, last, nops, buildVars, rel, program, ui_conversation,
                 ui_calls>>

\* auto_build up to its loop
UiAutoBuild ==
  /\ ui_pc = "called"
  /\ IF ui_iterations < 1
     THEN /\ ui_error' = "ValueError"
          /\ ui_pc' = "idle"
          /\ Returned
          /\ UNCHANGED ui_conversation
     ELSE /\ ui_conversation' = seeded(ui_conversation, ui_site_type, Prompt)
          /\ ui_pc' = "building"
          /\ UNCHANGED <<ui_error, ui_iterations, ui_site_type, ui_step>>
  /\ UNCHANGED <<toolVars, buildVars, rel, program, ui_calls, ui_last>>

\* a for loop left at the first empty text, as autonomous_builder's is
goesOn_Break(text, k, n) == text # <<>> /\ k + 1 < n

\* for step in range(iterations): the text of a pass has no part in whether
\* the next pass is made
goesOn(text, k, n) == k + 1 < n

\* one pass of the for loop: the call returns and its text is appended
UiBuildStep(text) ==
  /\ ui_pc = "building"
  /\ ui_step < ui_iterations
  /\ ui_conversation' =
       Append(withImprove(ui_conversation, ui_step), Msg("assistant", text))
  /\ ui_calls' = ui_calls + 1
  /\ IF goesOn(text, ui_step, ui_iterations)
     THEN /\ ui_pc' = "building"
          /\ ui_step' = ui_step + 1
          /\ UNCHANGED <<ui_iterations, ui_site_type>>
     ELSE /\ ui_pc' = "idle"
          /\ Returned
  /\ UNCHANGED <<toolVars, buildVars, rel, program, ui_error, ui_last>>

\* one pass of the for loop: the connection or the call fails and the
\* exception leaves auto_build
UiBuildFail ==
  /\ ui_pc = "building"
  /\ ui_step < ui_iterations
  /\ ui_conversation' = withImprove(ui_conversation, ui_step)
  /\ ui_calls' = ui_calls + 1
  /\ ui_error' = "TransportError"
  /\ ui_pc' = "idle"
  /\ Returned
  /\ UNCHANGED <<toolVars, buildVars, rel, program, ui_last>>

\* send_chat with a message entered: call_compound_tool returns text
UiSendChat(t, node, text) ==
  /\ program = "website_builder_ui"
  /\ ui_pc = "idle"
  /\ ui_calls < MaxUiCalls
  /\ fs' = prepared(fs, t, node)
  /\ ui_conversation' =
       Append(withImproveChat(seeded(ui_conversation, t, ChatText)), Msg("assistant", text))
  /\ ui_calls' = ui_calls + 1
  /\ ui_error' = ""
  /\ ui_last' = UiStarted("send_chat", 0, prepared(fs, t, node))
  /\ UNCHANGED <<index, embed, last, nops, buildVars, rel, program, ui_pc, ui_iterations,
                 ui_site_type, ui_step>>

\* send_chat with a message entered: the connection or the call fails
UiSendChatFail(t, node) ==
  /\ program = "website_builder_ui"
  /\ ui_pc = "idle"
  /\ ui_calls < MaxUiCalls
  /\ fs' = prepared(fs, t, node)
  /\ ui_conversation' = withImproveChat(seeded(ui_conversation, t, ChatText))
  /\ ui_calls' = ui_calls + 1
  /\ ui_error' = "TransportError"
  /\ ui_last' = UiStarted("send_chat", 0, prepared(fs, t, node))
  /\ UNCHANGED <<index, embed, last, nops, buildVars, rel, program, ui_pc, ui_iterations,
                 ui_site_type, ui_step>>

\* reset(): conversation.clear()
UiReset ==
  /\ program = "website_builder_ui"
  /\ ui_pc = "idle"
  /\ ui_conversation' = <<>>
  /\ ui_last' = UiStarted("reset", 0, fs)
  /\ UNCHANGED <<toolVars, buildVars, rel, program, ui_pc, ui_iterations, ui_site_type,
                 ui_step, ui_calls, ui_error>>

Programs == {"autonomous_builder", "website_builder_ui"}

\* the embedding model is the server's: the front end has none
Init ==
  /\ InitTools /\ InitBuild /\ InitUi /\ rel = <<>>
  /\ program \in Programs
  /\ program = "website_builder_ui" => ~embed

Next ==
  \/ \E n \in (-1)..MaxIter, t \in {"html", "react"}, m \in Models, e \in BOOLEAN, npm \in BOOLEAN :
       Build(n, t, m, e, npm)
  \/ StartTurn
  \/ \E c \in FinalTexts : EngineFinal(c)
  \/ \E b \in Batches(MaxCalls - nops) : EngineToolCalls(b)
  \/ EngineError
  \/ DispatchCall(NoEnv)
  \/ \E x \in FinalTexts \ {None} : GeminiTurn(x)
  \/ Finish
  \/ \E n \in (-1)..MaxIter, t \in {"html", "react"}, node \in BOOLEAN : UiRunPrompt(n, t, node)
  \/ UiAutoBuild
  \/ \E text \in UiTexts : UiBuildStep(text)
  \/ UiBuildFail
  \/ \E t \in {"html", "react"}, node \in BOOLEAN, text \in UiTexts : UiSendChat(t, node, text)
  \/ \E t \in {"html", "react"}, node \in BOOLEAN : UiSendChatFail(t, node)
  \/ UiReset

Spec == Init /\ [][Next]_vars

\* the engine answers a call: with text, with tool calls, or with an error
EngineAnswers ==
  \/ \E c \in FinalTexts : EngineFinal(c)
  \/ \E b \in Batches(MaxCalls - nops) : EngineToolCalls(b)
  \/ EngineError

\* the for loop of _run_groq comes to the end of the call at its head: seen
\* on pc and pending alone, a call that returns leaves its successors
CallReturns ==
  /\ pc = "executing"
  /\ pending # <<>>
  /\ pending' = rest(pending)
  /\ pc' = afterCall(rest(pending))

\* the for loop of _run_groq runs on (a call that is made returns or raises),
\* and every awaited engine call comes back
FairSpec == Spec /\ WF_<<pc, pending>>(CallReturns) /\ WF_vars(EngineAnswers)

\* ------------------------------------------------------------------------
\* The tools on their own: calls dispatched one after the other
\* ------------------------------------------------------------------------
ToolPaths ==
  { <<"i">>, <<"w">>, <<"e">>, <<"d", Sep, "m">>, <<"i", Sep, "x">>,
    <<".", ".", Sep, "i">>, <<>> }

ToolContents == { <<>>, <<"a">>, <<"a", LF>>, <<"a", CR>>, <<"b">> }

Procs == [out : {<<>>, <<"a">>}, hang : BOOLEAN]

ToolWrite(path, content) ==
  /\ nops < MaxOps
  /\ Invoke(Call(nops + 1, "write_file", WriteFields(path, content)), NoEnv)
  /\ UNCHANGED <<buildVars, rel, uiVars>>

ToolRead(path) ==
  /\ nops < MaxOps
  /\ Invoke(Call(nops + 1, "read_file", PathFields(path)), NoEnv)
  /\ UNCHANGED <<buildVars, rel, uiVars>>

ToolList ==
  /\ nops < MaxOps
  /\ Invoke([id |-> nops + 1, name |-> "list_files", arguments |-> EmptyArgs], NoEnv)
  /\ UNCHANGED <<buildVars, rel, uiVars>>

ToolRunCmd(proc) ==
  /\ nops < MaxOps
  /\ Invoke(Call(nops + 1, "run_cmd", [k \in {"cmd"} |-> <<"c">>]), [NoEnv EXCEPT !.proc = proc])
  /\ UNCHANGED <<buildVars, rel, uiVars>>

ToolSearch(query) ==
  /\ nops < MaxOps
  /\ Invoke(Call(nops + 1, "search_docs", [k \in {"query"} |-> query]), NoEnv)
  /\ UNCHANGED <<buildVars, rel, uiVars>>

ToolGetOs ==
  /\ nops < MaxOps
  /\ Invoke([id |-> nops + 1, name |-> "get_os", arguments |-> EmptyArgs], NoEnv)
  /\ UNCHANGED <<buildVars, rel, uiVars>>

ToolInit(node, npm) ==
  /\ nops < MaxOps
  /\ Invoke([id |-> nops + 1, name |-> "init_react_project", arguments |-> EmptyArgs],
            [NoEnv EXCEPT !.node = node, !.npm = npm])
  /\ UNCHANGED <<buildVars, rel, uiVars>>

\* arguments the engine can send that are no valid mapping for any tool with
\* parameters: unparseable text, a JSON array, an object without the fields
MalformedArgs == {InvalidArgs, ArrayArgs, ObjectArgs(NoFields)}

\* a call of a catalog tool with such arguments
ToolMalformed(name, arguments) ==
  /\ nops < MaxOps
  /\ Invoke([id |-> nops + 1, name |-> name, arguments |-> arguments], NoEnv)
  /\ UNCHANGED <<buildVars, rel, uiVars>>

\* what can fail while a write is recorded: appending to the change log,
\* saving the index file, computing the embedding
Faults == {"log", "save", "encode"}

FaultyPaths == {<<"i">>}
FaultyContents == {<<"a">>, <<"b">>}

\* a write during which some of these fail
ToolWriteFaulty(path, content, faults) ==
  /\ nops < MaxOps
  /\ Invoke(Call(nops + 1, "write_file", WriteFields(path, content)),
            [NoEnv EXCEPT !.faults = faults])
  /\ UNCHANGED <<buildVars, rel, uiVars>>

NextTools ==
  \/ \E path \in ToolPaths, content \in ToolContents : ToolWrite(path, content)
  \/ \E path \in ToolPaths : ToolRead(path)
  \/ ToolList
  \/ \E proc \in Procs : ToolRunCmd(proc)
  \/ \E query \in {<<"a">>} : ToolSearch(query)
  \/ ToolGetOs
  \/ \E node \in BOOLEAN, npm \in BOOLEAN : ToolInit(node, npm)
  \/ \E name \in ToolNames, arguments \in MalformedArgs : ToolMalformed(name, arguments)
  \/ \E path \in FaultyPaths, content \in FaultyContents, faults \in (SUBSET Faults) \ {{}} :
       ToolWriteFaulty(path, content, faults)

InitServer == InitTools /\ InitBuild /\ InitUi /\ program = "website_mcp" /\ rel = <<>>

SpecTools == InitServer /\ [][NextTools]_vars

\* ------------------------------------------------------------------------
\* The tools on a sandbox that already holds a page longer than the cap
\* ------------------------------------------------------------------------
\* a text of OutCap + 1 characters
LongText == [i \in 1..(OutCap + 1) |-> "x"]


InitLong ==
  /\ fs = writeAt(writeAt(EmptyFs, join(SANDBOX, <<"i">>), LongText),
                  join(SANDBOX, <<"d", Sep, "m">>), LongText)
  /\ index = <<>>
  /\ embed \in BOOLEAN
  /\ last = NoLast
  /\ nops = 0
  /\ InitBuild /\ InitUi /\ program = "website_mcp" /\ rel = <<>>

NextLong ==
  \/ \E path \in {<<"i">>, <<"n">>}, content \in {<<"a">>, LongText} : ToolWrite(path, content)
  \/ \E path \in {<<"i">>, <<"n">>} : ToolRead(path)
  \/ ToolList
  \/ \E out \in {<<"a">>, LongText}, hang \in BOOLEAN : ToolRunCmd([out |-> out, hang |-> hang])
  \/ \E query \in {<<"x">>, <<"a">>} : ToolSearch(query)
  \/ ToolGetOs
  \/ \E node \in BOOLEAN, npm \in BOOLEAN : ToolInit(node, npm)

SpecLong == InitLong /\ [][NextLong]_vars

\* ------------------------------------------------------------------------
\* Properties
\* ------------------------------------------------------------------------
\* Where a path leads, found by walking its components from the sandbox
\* (or from the root, for an absolute path)
RECURSIVE Walk(_, _)
Walk(stack, comps) ==
  IF comps = <<>> THEN stack
  ELSE IF Head(comps) = <<>> \/ Head(comps) = Dot THEN Walk(stack, Tail(comps))
  ELSE IF Head(comps) = DotDot
       THEN Walk(IF stack = <<>> THEN stack ELSE SubSeq(stack, 1, Len(stack) - 1), Tail(comps))
  ELSE Walk(Append(stack, Head(comps)), Tail(comps))

SandboxDirs == Walk(<<>>, split(SANDBOX))

Target(p) == Walk(IF isabs(p) THEN <<>> ELSE SandboxDirs, split(p))

\* a path with exactly two leading slashes names another root
OtherRoot(p) == Len(p) >= 2 /\ p[1] = Sep /\ p[2] = Sep /\ (Len(p) = 2 \/ p[3] # Sep)

Below(t) == Len(t) > Len(SandboxDirs) /\ SubSeq(t, 1, Len(SandboxDirs)) = SandboxDirs

Inside(p) == ~OtherRoot(p) /\ Below(Target(p))

AtRoot(p) == ~OtherRoot(p) /\ Target(p) = SandboxDirs

Outside(p) == ~Inside(p) /\ ~AtRoot(p)

LastIs(name) == last.call.name = name

LastPath == get(json_loads(last.call.arguments), "path")

\* C1: a path that leads outside the sandbox is refused with the path-escape
\* error by write_file and read_file, which then touch no file; a path that
\* leads inside is accepted and resolved to an absolute path that has the
\* sandbox root as its prefix, and write_file writes at that path.
C1_PathConfinement ==
  (LastIs("write_file") \/ LastIs("read_file")) =>
    /\ Outside(rel) =>
         /\ sandbox_path(rel).err = EscapeError
         /\ last.raised = "ValueError"
         /\ fs = last.before
         /\ index = last.indexBefore
    /\ Inside(rel) =>
         /\ sandbox_path(rel).err = ""
         /\ isabs(sandbox_path(rel).full)
         /\ startswith(sandbox_path(rel).full, SANDBOX)
         /\ last.raised # "ValueError"
         /\ (LastIs("write_file") /\ last.raised = "") => isfile(fs, sandbox_path(rel).full)

\* C1 witness: a write to a sibling directory whose name starts with the
\* root's name has been refused
C1_Witness ==
  /\ LastIs("write_file")
  /\ rel = <<".", ".", Sep, "s", "2">>
  /\ last.raised = "ValueError"
  /\ fs = EmptyFs

\* C2: a tool that raises for a missing file or for a path that escapes the
\* sandbox gives a tool-result message for the invocation, and the turn goes on.
C2_ToolErrorsBecomeResults ==
  (last.raised \in {"FileNotFoundError", "ValueError"}) =>
    /\ pc # "failed"
    /\ conversation # <<>>
    /\ conversation[Len(conversation)].role = "tool"
    /\ conversation[Len(conversation)].tool_call_id = last.call.id

isToolCalls(m) == m.role = "assistant" /\ "tool_calls" \in DOMAIN m

isToolResult(m) == m.role = "tool"

\* the message that asked for the result at position i
Requester(conv, i) ==
  CHOOSE j \in 0..(i-1) :
    /\ j > 0 => ~isToolResult(conv[j])
    /\ \A k \in (j+1)..(i-1) : isToolResult(conv[k])

\* every tool result follows its requesting assistant message or earlier
\* results of the same batch, and carries the id of its invocation
Ordered(conv) ==
  \A i \in 1..Len(conv) :
    isToolResult(conv[i]) =>
      /\ Requester(conv, i) > 0
      /\ isToolCalls(conv[Requester(conv, i)])
      /\ i - Requester(conv, i) <= Len(conv[Requester(conv, i)].tool_calls)
      /\ conv[i].tool_call_id = conv[Requester(conv, i)].tool_calls[i - Requester(conv, i)].id

\* every batch but the last has all its results; the last one lacks `missing`
Answered(conv, missing) ==
  \A j \in 1..Len(conv) :
    isToolCalls(conv[j]) =>
      /\ conv[j].tool_calls # <<>>
      /\ LET k == Len(conv[j].tool_calls) -
                  (IF \A h \in (j+1)..Len(conv) : ~isToolCalls(conv[h]) THEN missing ELSE 0)
         IN  /\ j + k <= Len(conv)
             /\ \A h \in (j+1)..(j+k) : isToolResult(conv[h])
             /\ j + k < Len(conv) => ~isToolResult(conv[j + k + 1])

\* C3: the conversation of the agent loop keeps its order: an assistant
\* message with the invocations, then one result per invocation, in order and
\* with its id; the engine is only called on conversations whose batches are
\* all answered, and the calls not yet dispatched are the tail of the batch.
C3_ConversationOrder ==
  /\ Ordered(conversation)
  /\ model = "llama" => (Ordered(sent) /\ Answered(sent, 0))
  /\ pc = "awaiting" => Answered(conversation, 0)
  /\ pc = "executing" =>
       /\ pending # <<>>
       /\ Answered(conversation, Len(pending))
       /\ \E j \in 1..Len(conversation) :
            /\ isToolCalls(conversation[j])
            /\ Len(conversation) - j + Len(pending) = Len(conversation[j].tool_calls)
            /\ pending = SubSeq(conversation[j].tool_calls,
                                Len(conversation) - j + 1, Len(conversation[j].tool_calls))

\* C3 witness: a batch of two invocations has been answered in order and the
\* engine is about to be called again
C3_Witness ==
  /\ pc = "awaiting"
  /\ Len(conversation) >= 3
  /\ isToolCalls(conversation[Len(conversation) - 2])
  /\ Len(conversation[Len(conversation) - 2].tool_calls) = 2
  /\ isToolResult(conversation[Len(conversation) - 1])
  /\ isToolResult(conversation[Len(conversation)])
  /\ conversation[Len(conversation) - 1].tool_call_id
       = conversation[Len(conversation) - 2].tool_calls[1].id
  /\ conversation[Len(conversation)].tool_call_id
       = conversation[Len(conversation) - 2].tool_calls[2].id

\* the text of the change log
LogText(f) == IF isfile(f, WRITE_LOG) THEN f[WRITE_LOG] ELSE <<>>

\* the entries of the change log: one timestamp line each
EntryCount(text) == Cardinality({i \in 1..Len(text) : text[i] = Timestamp})

LastContent == get(json_loads(last.call.arguments), "content")

WriteDone == LastIs("write_file") /\ last.raised = ""

\* the log's last block is an entry for the path
LastEntryNames(text, path) ==
  \E k \in 1..Len(text) :
    /\ text[k] = Timestamp
    /\ \A h \in (k+1)..Len(text) : text[h] # Timestamp
    /\ startswith(SubSeq(text, k, Len(text)), <<Timestamp, " ">> \o path \o <<LF>>)

\* C4: after a write of content c to an accepted path, reading the path back
\* returns exactly c, and the change log has exactly one new entry, naming the path.
C4_WriteReadRoundTrip ==
  WriteDone =>
    /\ read_file(fs, index, LastPath).raised = ""
    /\ read_file(fs, index, LastPath).result = LastContent
    /\ EntryCount(LogText(fs)) = EntryCount(LogText(last.before)) + 1
    /\ LastEntryNames(LogText(fs), LastPath)

\* C5: the change log only grows at its end, by one entry per successful
\* write and by nothing else.
C5_LogAppendOnly ==
  /\ startswith(LogText(fs), LogText(last.before))
  /\ EntryCount(LogText(fs)) =
       EntryCount(LogText(last.before)) + (IF WriteDone THEN 1 ELSE 0)

\* the second of two successful writes of the same content to the same path
Rewrite ==
  /\ WriteDone
  /\ last.prev.name = "write_file"
  /\ last.prevRaised = ""
  /\ last.prev.arguments = last.call.arguments

\* C10: the second of two writes of the same content to the same path has an
\* empty diff, in its result and in its log entry, and leaves the content
\* cache as it was.
C10_IdempotentRewrite ==
  Rewrite =>
    /\ last.result \in {<<"created", " ">> \o LastPath \o <<LF>>,
                        <<"updated", " ">> \o LastPath \o <<LF>>}
    /\ endswith(LogText(fs), logEntry(LastPath, <<>>))
    /\ index = last.indexBefore

Count(seq, P(_)) == Cardinality({i \in 1..Len(seq) : P(seq[i])})

isAssistant(m) == m.role = "assistant"

isRefine(m) == m = Msg("user", RefineText)

AllNonEmpty == \A i \in 1..Len(results) : results[i] # <<>>

isImprove(m) == m = Msg("user", ImproveBuild)

\* what the handler run last has added to the session's conversation
UiAdded == SubSeq(ui_conversation, Len(ui_last.before) + 1, Len(ui_conversation))

\* the same without the system message of a conversation that was empty
UiBody == IF ui_last.before = <<>> THEN Tail(UiAdded) ELSE UiAdded

\* a build of the session has run all its passes
UiBuilt ==
  /\ program = "website_builder_ui"
  /\ ui_last.op = "auto_build"
  /\ ui_last.n >= 1
  /\ ui_pc = "idle"
  /\ ui_error = ""

UiAllNonEmpty ==
  \A i \in 1..Len(UiAdded) : isAssistant(UiAdded[i]) => UiAdded[i].content # <<>>

\* C6: a build of N >= 1 iterations whose turns all return text makes N
\* turns and ends with system, specification, assistant, (refine, assistant)*:
\* N assistant messages and N-1 refine instructions.  The same holds of what
\* a build of the desktop session adds to its conversation, the system
\* message being the first message of the conversation.
C6_TurnAccounting ==
  /\ (pc = "done" /\ AllNonEmpty) =>
       /\ iterations >= 1
       /\ turns = iterations
       /\ Len(results) = iterations
       /\ Len(messages) = 2 * iterations + 1
       /\ messages[1].role = "system"
       /\ messages[2] = Msg("user", SpecText)
       /\ \A k \in 1..iterations : isAssistant(messages[2 * k + 1])
       /\ \A k \in 1..(iterations - 1) : isRefine(messages[2 * k + 2])
       /\ Count(messages, isAssistant) = iterations
       /\ Count(messages, isRefine) = iterations - 1
  /\ (UiBuilt /\ UiAllNonEmpty) =>
       /\ ui_calls - ui_last.calls = ui_last.n
       /\ ui_conversation[1].role = "system"
       /\ SubSeq(ui_conversation, 1, Len(ui_last.before)) = ui_last.before
       /\ Len(UiBody) = 2 * ui_last.n
       /\ UiBody[1] = Msg("user", Prompt)
       /\ \A k \in 1..ui_last.n : isAssistant(UiBody[2 * k])
       /\ \A k \in 1..(ui_last.n - 1) : isImprove(UiBody[2 * k + 1])
       /\ Count(UiAdded, isAssistant) = ui_last.n
       /\ Count(UiAdded, isImprove) = ui_last.n - 1

\* C6 witness: a build of three iterations has ended, every turn with text
C6_Witness ==
  /\ pc = "done"
  /\ iterations = 3
  /\ Len(results) = 3
  /\ AllNonEmpty
  /\ Count(messages, isRefine) = 2

\* the turns made so far end at the first empty one
FirstEmpty == CHOOSE i \in 1..Len(results) : results[i] = <<>> /\ \A j \in 1..(i-1) : results[j] # <<>>

\* C7: an empty turn is the last one and is no error: a finished build has
\* made min(iterations, index of the first empty turn) turns, and no turn is
\* ever started after an empty one.
C7_EarlyStop ==
  /\ \A i \in 1..(Len(results) - 1) : results[i] # <<>>
  /\ (results # <<>> /\ results[Len(results)] = <<>>) =>
       (pc \in {"finish", "done"} /\ turns = Len(results) /\ error = "")
  /\ turns = 0 \/ turns <= iterations
  /\ pc = "done" =>
       /\ error = ""
       /\ turns = IF AllNonEmpty THEN iterations ELSE FirstEmpty
       /\ turns <= iterations

\* C7 witness: "ok", then "", and the build is over after two turns of three
C7_Witness ==
  /\ pc = "done"
  /\ iterations = 3
  /\ results = << <<"o", "k">>, <<>> >>
  /\ turns = 2

\* the assistant messages of the build, in order
Assistants == SelectSeq(messages, isAssistant)

\* C8: after each turn that returns text, the message appended for it holds
\* the whole text.
C8_FullTextAppended ==
  \A i \in 1..Len(results) :
    results[i] # <<>> =>
      /\ Len(Assistants) >= i
      /\ Assistants[i].content = results[i]

\* auto_build of the desktop session has been called with iterations < 1
\* and has been entered
UiRefused ==
  /\ program = "website_builder_ui"
  /\ ui_last.op = "auto_build"
  /\ ui_last.n < 1
  /\ ui_pc # "called"

\* C9: with iterations < 1 the build fails with the invalid-argument error
\* before anything else: no specification read, no message, no engine call,
\* no file touched.  In the desktop session the conversation, the calls
\* issued and the files are those of the moment auto_build was called.
C9_InvalidIterations ==
  /\ (pc # "idle" /\ iterations < 1) =>
       /\ pc = "failed"
       /\ error = "ValueError"
       /\ ~specRead
       /\ messages = <<>>
       /\ conversation = <<>>
       /\ sent = <<>>
       /\ turns = 0
       /\ nops = 0
       /\ fs = EmptyFs
  /\ UiRefused =>
       /\ ui_pc = "idle"
       /\ ui_error = "ValueError"
       /\ ui_conversation = ui_last.before
       /\ ui_calls = ui_last.calls
       /\ fs = ui_last.fs

\* C9 witness: a build with iterations = 0 has been refused
C9_Witness ==
  /\ pc = "failed"
  /\ iterations = 0
  /\ error = "ValueError"
  /\ ~specRead

\* the absolute path of the last call's path argument
LastFull == sandbox_path(LastPath).full

\* the diff in the result of a write: what follows "<status> <path>\n"
ResultDiff == SubSeq(last.result, Len(LastPath) + 4, Len(last.result))

\* a successful write to a file that existed with other content
Overwrite ==
  /\ WriteDone
  /\ isfile(last.before, LastFull)
  /\ last.before[LastFull] # LastContent

\* C11: a write of content that differs from the content of the existing
\* file returns a non-empty unified diff, logs that diff, and adds exactly
\* one entry to the change log.
C11_DifferentContentDiff ==
  Overwrite =>
    /\ ResultDiff # <<>>
    /\ endswith(LogText(fs), logEntry(LastPath, ResultDiff))
    /\ EntryCount(LogText(fs)) = EntryCount(LogText(last.before)) + 1

\* C12: an invocation of a name that is not in the catalog is answered with
\* the "unknown tool" text as its tool result; no file and no index entry
\* changes, the loop goes on to the remaining invocations, and to the next
\* engine call after the last one.
C12_UnknownTool ==
  [][(pc = "executing" /\ Head(pending).name \notin ToolNames) =>
       /\ conversation' =
            Append(conversation,
                   [role |-> "tool", tool_call_id |-> Head(pending).id,
                    content |-> <<"Unknown tool: ", Head(pending).name>>])
       /\ fs' = fs
       /\ index' = index
       /\ pending' = Tail(pending)
       /\ pc' = IF Tail(pending) = <<>> THEN "awaiting" ELSE "executing"
       /\ error' = error]_vars

\* C12 witness: after an unknown name the next invocation of the batch has
\* written its file and the engine is about to be called again
C12_Witness ==
  /\ pc = "awaiting"
  /\ last.prev.name = "paint"
  /\ last.prevRaised = ""
  /\ LastIs("write_file")
  /\ isfile(fs, join(SANDBOX, <<"i">>))
  /\ Len(conversation) >= 2
  /\ conversation[Len(conversation) - 1].role = "tool"
  /\ conversation[Len(conversation) - 1].content = <<"Unknown tool: ", "paint">>

\* the last call named a catalog tool and carried no valid argument mapping
LastMalformed == last.call.name \in ToolNames /\ last.call.arguments \in MalformedArgs

\* C13: a call of a catalog tool with unparseable arguments, with a JSON
\* value that is no object, or with an object lacking the fields, is made
\* with empty arguments and returns a result: no exception leaves the dispatch.
C13_InvalidArgsDegrade ==
  LastMalformed =>
    /\ last.raised = ""
    /\ last.result =
         Dispatch(last.before, last.indexBefore, embed,
                  [last.call EXCEPT !.arguments = EmptyArgs], NoEnv).result

\* the size of the result of the last call, as appended to the conversation
PayloadLen == Len(last.result)

\* C14: the result of every tool call that returns is at most OutCap long.
C14_ResultCap == (last.call.name \in ToolNames /\ last.raised = "") => PayloadLen <= OutCap

\* C15: a run_cmd whose command runs into the timeout does not raise: its
\* result is the output the subprocess produced before the timeout followed
\* by the timeout marker, whatever that output was.
C15_TimeoutSurfaced ==
  [][\A proc \in Procs :
       (proc.hang /\ last'.call.name = "run_cmd" /\ ToolRunCmd(proc)) =>
          /\ last'.raised = ""
          /\ last'.result = proc.out \o TimeoutMark]_vars

\* C16: a write during which the log cannot be appended, the index cannot be
\* saved or the embedding cannot be computed still returns its status
\* result, and the file holds the new content.
C16_PersistenceNonFatal ==
  [][\A path \in FaultyPaths, content \in FaultyContents, faults \in (SUBSET Faults) \ {{}} :
       (/\ ~isdir(fs, sandbox_path(path).full)
        /\ last'.call.name = "write_file"
        /\ ToolWriteFaulty(path, content, faults)) =>
          /\ last'.raised = ""
          /\ startswith(last'.result, <<"created", " ">> \o path \o <<LF>>)
             \/ startswith(last'.result, <<"updated", " ">> \o path \o <<LF>>)
          /\ isfile(fs', sandbox_path(path).full)
          /\ fs'[sandbox_path(path).full] = content]_vars

isSystem(m) == m.role = "system"

\* no system message anywhere but at the head
SystemFirst(conv) == \A i \in 1..Len(conv) : isSystem(conv[i]) => i = 1

\* C17: every conversation (the orchestrator's message list, the agent
\* loop's copy, what is sent to the engine, and the desktop session's
\* conversation) has at most one system message, and it is the first message.
C17_SystemMessageFirst ==
  /\ SystemFirst(messages)
  /\ SystemFirst(conversation)
  /\ SystemFirst(sent)
  /\ SystemFirst(ui_conversation)

\* C17 witness: a session begun as an html project has gone on with a chat
\* send of the React type, whose call failed: its one system message is
\* still the first message
C17_Witness ==
  /\ program = "website_builder_ui"
  /\ ui_last.op = "send_chat"
  /\ ui_last.before # <<>>
  /\ ui_error = "TransportError"
  /\ exists(fs, pkg)
  /\ ui_conversation[1] = Msg("system", UI_SYSTEM_PROMPT)
  /\ Count(ui_conversation, isSystem) = 1
  /\ Len(ui_conversation) >= 4

\* C18: a path that leads exactly to the sandbox root is resolved, not
\* refused with the path-escape error, while a path that leads neither to the
\* root nor below it is refused.
C18_RootAccepted ==
  (LastIs("write_file") \/ LastIs("read_file")) =>
    /\ AtRoot(rel) =>
         /\ sandbox_path(rel).err = ""
         /\ sandbox_path(rel).full = SANDBOX
         /\ last.raised # "ValueError"
    /\ Outside(rel) =>
         /\ sandbox_path(rel).err = EscapeError
         /\ last.raised = "ValueError"

\* the roles of the transcript format of the second backend
NativeRoles == {"user", "model"}

\* C19: the transcript given to the second backend carries only roles of
\* that backend's format: no stored role name is passed through as it is;
\* and the turn gives back text only: no tool invocation or tool result
\* reaches a conversation.
C19_RolesTranslated ==
  (model = "gemini" /\ sent # <<>>) =>
    /\ \A i \in 1..Len(sent) : sent[i].role \in NativeRoles
    /\ conversation = <<>>
    /\ \A i \in 1..Len(messages) : DOMAIN messages[i] = {"role", "content"}

\* a turn of the agent loop is running
InTurn == pc \in {"awaiting", "executing"}

\* a step that ends a turn with a result handed to auto_build
TurnReturns == InTurn /\ pc' \in {"loop", "finish"}

isText(m) ==
  /\ DOMAIN m = {"role", "content"}
  /\ m.role \in {"system", "user", "assistant"}
  /\ m.content # None

\* C21: a turn of _run_groq never changes auto_build's message list: while
\* the turn runs, and when it raises, the list stays what it was at the call;
\* when the turn returns, the list is the one given to the call, to which
\* auto_build itself appends at most one assistant text message; every turn
\* starts from exactly auto_build's list, so the tool-call and tool-result
\* messages of earlier turns are not in it; and auto_build's list holds only
\* system, user and assistant text messages.
C21_CallerUntouched ==
  /\ [][(InTurn /\ ~TurnReturns) => messages' = messages]_vars
  /\ [][TurnReturns =>
          \/ messages' = messages
          \/ /\ Len(messages') = Len(messages) + 1
             /\ SubSeq(messages', 1, Len(messages)) = messages
             /\ isAssistant(messages'[Len(messages')])
             /\ isText(messages'[Len(messages')])]_vars
  /\ [](pc = "awaiting" /\ rounds = 0 => conversation = messages)
  /\ [](\A i \in 1..Len(messages) : isText(messages[i]))

\* C21 witness: a second turn starts after a turn that made tool calls
C21_Witness ==
  /\ pc = "awaiting"
  /\ turns = 2
  /\ rounds = 0
  /\ nops >= 1
  /\ Len(messages) = 4

\* the conversation had no message when the handler run last started
UiFresh == IF ui_last.before = <<>> THEN 1 ELSE 0

\* C22: the desktop session's auto_build never stops early.  While it runs,
\* every pass made so far has issued one compound_tool call and appended one
\* assistant message; when it has returned without a failed call, it has
\* issued exactly N calls and the conversation has grown by the prompt, N
\* assistant messages and N-1 improve instructions, and by the system message
\* if it was empty: also when a turn's text is empty.
C22_UiNoEarlyStop ==
  /\ (program = "website_builder_ui" /\ ui_pc = "building") =>
       /\ ui_calls - ui_last.calls = ui_step
       /\ Count(UiAdded, isAssistant) = ui_step
       /\ Len(UiAdded) = UiFresh + 1 + ui_step + (IF ui_step > 0 THEN ui_step - 1 ELSE 0)
  /\ UiBuilt =>
       /\ ui_calls - ui_last.calls = ui_last.n
       /\ Count(UiAdded, isAssistant) = ui_last.n
       /\ Count(UiAdded, isImprove) = ui_last.n - 1
       /\ Len(ui_conversation) = Len(ui_last.before) + UiFresh + 1 + ui_last.n + (ui_last.n - 1)
       /\ isAssistant(ui_conversation[Len(ui_conversation)])

\* C22 witness: a build of three passes has returned although its first
\* turn's text was empty
C22_Witness ==
  /\ UiBuilt
  /\ ui_last.n = 3
  /\ UiBody[2] = Msg("assistant", <<>>)
  /\ Len(UiBody) = 6

====
